---- MODULE Spec2Model ----
(***************************************************************************)
(* T-Radex trading bot: the risk gate (src/src/risk_manager.py), the       *)
(* strategies and their factory (src/src/strategies.py) and the            *)
(* orchestration loop (src/src/bot.py) with its two collaborators, the     *)
(* exchange (src/src/exchange.py) and the dashboard (src/src/dashboard.py).*)
(*                                                                         *)
(* Three specifications share the module:                                  *)
(*   RiskSpec  - a client calling the RiskManager methods in any order;    *)
(*   StratSpec - StrategyFactory.create and Strategy.analyze applied to    *)
(*               bounded configurations and OHLCV series;                  *)
(*   Spec      - TradingBot: construction, then the run loop.              *)
(*                                                                         *)
(* Numbers: prices, volumes and PnL are integers.  A confidence c is held  *)
(* as the integer 300*c, a limit price p as 1000*p, an amount as the pair  *)
(* (numerator, denominator) of the quotient the code computes.             *)
(***************************************************************************)
EXTENDS Integers, Sequences, FiniteSets, TLC

VARIABLES
    daily_pnl,        \* RiskManager.daily_pnl
    max_daily_loss,   \* RiskManager.max_daily_loss
    calls,            \* RiskSpec: the client's calls so far, with results
    s_config,         \* StratSpec: the strategy configuration handed to create
    s_data,           \* StratSpec: the OHLCV frame handed to analyze
    s_strategy,       \* StratSpec: result of StrategyFactory.create
    s_result,         \* StratSpec: result of analyze
    pc,               \* Spec: where the bot is
    config,           \* Spec: the loaded configuration
    strategies,       \* Spec: TradingBot.strategies
    signals,          \* Spec: the batch _analyze_markets returned
    origin,           \* Spec: for each signal of the batch, <<symbol index, strategy index>>
    idx,              \* Spec: position of _execute_trades in the batch
    cycle,            \* Spec: number of the current loop iteration
    trades,           \* Spec: rows of the dashboard's trades table
    log,              \* Spec: collaborator and risk-gate calls of the current cycle
    last,             \* Spec: what the last loop-body step of _execute_trades did
    got_ohlcv,        \* Spec: exchange.get_ohlcv has been called
    executed_order    \* Spec: exchange.execute_order has been called

riskVars  == <<daily_pnl, max_daily_loss>>
clientVars == <<calls>>
stratVars == <<s_config, s_data, s_strategy, s_result>>
botVars   == <<pc, config, strategies, signals, origin, idx, cycle, trades, log,
               last, got_ohlcv, executed_order>>
vars      == <<daily_pnl, max_daily_loss, calls, s_config, s_data, s_strategy,
               s_result, pc, config, strategies, signals, origin, idx, cycle,
               trades, log, last, got_ohlcv, executed_order>>

----------------------------------------------------------------------------
(* Bounds *)

MaxLoss   == 2     \* max_daily_loss ranges over 1..MaxLoss
MaxCalls  == 4     \* RiskSpec: number of client calls
MaxClose  == 2     \* closes range over 1..MaxClose
MaxLen    == 6     \* OHLCV series have 0..MaxLen candles
MaxCycles == 2     \* Spec: loop iterations

\* Python's None / an absent optional value, and a present one
None == <<>>

Some(x) == <<x>>

\* dict.get(key, default)
Get(d, key, default) == IF key \in DOMAIN d THEN d[key] ELSE default

\* The result of a call: a returned value, or a raised exception
Return(v) == [exc |-> "", value |-> v]

Raise(e) == [exc |-> e, value |-> <<>>]

----------------------------------------------------------------------------
(* TradeSignal, src/src/strategies.py:9-16 *)

TradeSignal(symbol, side, amount, price, type, confidence) ==
    [symbol |-> symbol, side |-> side, amount |-> amount, price |-> price,
     type |-> type, confidence |-> confidence]

----------------------------------------------------------------------------
(* RiskManager, src/src/risk_manager.py *)

approve_trade_nonstrict(pnl, maxloss, signal) ==
    IF pnl <= -maxloss THEN FALSE ELSE TRUE

\* risk_manager.py:9-16
approve_trade(pnl, maxloss, signal) ==
    IF pnl < -maxloss THEN FALSE ELSE TRUE

update_pnl_assign(pnl, amount) == amount

\* risk_manager.py:18-20
update_pnl(pnl, amount) == pnl + amount

\* risk_manager.py:22-24
reset_daily_pnl == 0

\* risk_manager.py:4-7
RiskManagerInit ==
    /\ daily_pnl = 0
    /\ max_daily_loss \in 1..MaxLoss

----------------------------------------------------------------------------
(* RiskSpec: a client of RiskManager *)

ClientSignals ==
    { TradeSignal("BTC/USDT", "buy", <<100, 100>>, Some(1002), "limit", 300),
      TradeSignal("BTC/USDT", "sell", <<100, 200>>, None, "market", 240) }

Deltas == -(MaxLoss + 1) .. (MaxLoss + 1)

CallApproveTrade(signal) ==
    /\ Len(calls) < MaxCalls
    /\ calls' = Append(calls, [op |-> "approve_trade", signal |-> Some(signal), amount |-> None,
                               result |-> Some(approve_trade(daily_pnl, max_daily_loss, signal))])
    /\ UNCHANGED <<riskVars, stratVars, botVars>>

CallUpdatePnl(amount) ==
    /\ Len(calls) < MaxCalls
    /\ daily_pnl' = update_pnl(daily_pnl, amount)
    /\ calls' = Append(calls, [op |-> "update_pnl", signal |-> None, amount |-> Some(amount),
                               result |-> None])
    /\ UNCHANGED <<max_daily_loss, stratVars, botVars>>

CallResetDailyPnl ==
    /\ Len(calls) < MaxCalls
    /\ daily_pnl' = reset_daily_pnl
    /\ calls' = Append(calls, [op |-> "reset_daily_pnl", signal |-> None, amount |-> None,
                               result |-> None])
    /\ UNCHANGED <<max_daily_loss, stratVars, botVars>>

----------------------------------------------------------------------------
(* OHLCV frames.  A frame is the pandas DataFrame handed to analyze:       *)
(*   candles    - its rows, oldest first;                                  *)
(*   positional - whether series[-2] resolves by position: it does on a    *)
(*                non-integer index (pandas < 3) and raises KeyError on    *)
(*                the default RangeIndex, which exchange.get_ohlcv builds; *)
(*   rsi        - what ta.RSI (TA-Lib, outside the repository) yields for  *)
(*                the last row.                                            *)

Candle(close, volume) == [high |-> close, low |-> close, close |-> close, volume |-> volume]

Frame(candles, positional, rsi) == [candles |-> candles, positional |-> positional, rsi |-> rsi]

RECURSIVE SeqsUpTo(_, _)
\* all sequences over S of length 0..n
SeqsUpTo(S, n) ==
    IF n = 0 THEN { <<>> }
    ELSE LET shorter == SeqsUpTo(S, n - 1)
         IN  shorter \cup { Append(q, x) : q \in { r \in shorter : Len(r) = n - 1 }, x \in S }

RsiValues == {0, 9, 20, 50, 80, 100}

Max2(a, b) == IF a >= b THEN a ELSE b

Min2(a, b) == IF a <= b THEN a ELSE b

RECURSIVE SumOver(_, _, _, _)
\* sum of f[i] for i in lo..hi, f a sequence of integers
SumOver(f, lo, hi, acc) ==
    IF lo > hi THEN acc ELSE SumOver(f, lo + 1, hi, acc + f[lo])

Closes(candles) == [i \in 1..Len(candles) |-> candles[i].close]

Squares(f) == [i \in 1..Len(f) |-> f[i] * f[i]]

----------------------------------------------------------------------------
(* Strategy base class, src/src/strategies.py:18-29 *)

\* strategies.py:19-21 (min_confidence defaults to 0.7)
StrategyBase(kind, cfg) ==
    [kind |-> kind, config |-> cfg, min_confidence |-> Get(cfg, "min_confidence", 210)]

validate_signal_always(st, signal) == TRUE

\* strategies.py:27-29
validate_signal(st, signal) == signal.confidence >= st.min_confidence

\* The classes that define _calculate_position_size: only
\* MeanReversionStrategy does (strategies.py:77-81); Strategy,
\* MomentumStrategy and BreakoutStrategy neither define nor inherit it.
HasPositionSize(st) == st.kind = "MeanReversion"

\* self._calculate_position_size(price), strategies.py:77-81:
\* (account_size * risk_per_trade) / price, risk_per_trade in percent here
calculate_position_size(st, price) ==
    IF HasPositionSize(st)
    THEN Return(<< Get(st.config, "account_size", 10000) * Get(st.config, "risk_per_trade", 1),
                   100 * price >>)
    ELSE Raise("AttributeError")

Filter(st, sigs) == SelectSeq(sigs, LAMBDA s : validate_signal(st, s))

----------------------------------------------------------------------------
(* MeanReversionStrategy, src/src/strategies.py:31-81 *)

\* strategies.py:33-37
MeanReversionStrategy(cfg) ==
    [f \in {"bb_window", "bb_std", "rsi_window"} |->
        CASE f = "bb_window"  -> Get(cfg, "bb_window", 20)
          [] f = "bb_std"     -> Get(cfg, "bb_std", 2)
          [] f = "rsi_window" -> Get(cfg, "rsi_window", 14)]
    @@ StrategyBase("MeanReversion", cfg)

\* ta.BBANDS at the last row: close <= middle - bb_std * stddev, with the
\* population standard deviation of the last bb_window closes.  With
\* S = sum and Q = sum of squares of the window, w*w*variance = w*Q - S*S.
AtOrBelowLowerBand(st, candles) ==
    LET n == Len(candles)
        w == st.bb_window
        c == Closes(candles)
        S == SumOver(c, n - w + 1, n, 0)
        Q == SumOver(Squares(c), n - w + 1, n, 0)
        d == S - w * c[n]
    IN  d >= 0 /\ st.bb_std * st.bb_std * (w * Q - S * S) <= d * d

\* close >= middle + bb_std * stddev
AtOrAboveUpperBand(st, candles) ==
    LET n == Len(candles)
        w == st.bb_window
        c == Closes(candles)
        S == SumOver(c, n - w + 1, n, 0)
        Q == SumOver(Squares(c), n - w + 1, n, 0)
        d == w * c[n] - S
    IN  d >= 0 /\ st.bb_std * st.bb_std * (w * Q - S * S) <= d * d

\* strategies.py:40
MeanReversion_too_short(st, n) == n < Max2(st.bb_window, st.rsi_window) * 2

\* strategies.py:39-75
MeanReversion_analyze(st, symbol, data) ==
    LET candles == data.candles
        n       == Len(candles)
        close   == candles[n].close
        rsi     == data.rsi
        size    == calculate_position_size(st, close)
    IN  IF MeanReversion_too_short(st, n) THEN Return(<<>>)
        ELSE IF AtOrBelowLowerBand(st, candles) /\ rsi < 30
        THEN IF size.exc # "" THEN Raise(size.exc)
             ELSE Return(Filter(st, << TradeSignal(symbol, "buy", size.value,
                                                   Some(close * 1002), "limit",
                                                   Min2(300, 10 * (30 - rsi))) >>))
        ELSE IF AtOrAboveUpperBand(st, candles) /\ rsi > 70
        THEN IF size.exc # "" THEN Raise(size.exc)
             ELSE Return(Filter(st, << TradeSignal(symbol, "sell", size.value,
                                                   Some(close * 998), "limit",
                                                   Min2(300, 10 * (rsi - 70))) >>))
        ELSE Return(<<>>)

----------------------------------------------------------------------------
(* MomentumStrategy, src/src/strategies.py:83-126 *)

\* strategies.py:85-88
MomentumStrategy(cfg) ==
    [f \in {"fast_ma", "slow_ma"} |->
        CASE f = "fast_ma" -> Get(cfg, "fast_ma", 9)
          [] f = "slow_ma" -> Get(cfg, "slow_ma", 21)]
    @@ StrategyBase("Momentum", cfg)

\* ta.SMA(close, timeperiod)[i] is NaN for the first timeperiod-1 rows
SmaDefined(period, i) == i >= period

\* data['fast_ma'] > data['slow_ma'] at row i (strategies.py:95-100); a
\* comparison with NaN is False.  SMA = sum / period, compared by cross
\* multiplication.
FastAboveSlow(st, candles, i) ==
    LET c == Closes(candles)
    IN  /\ SmaDefined(st.fast_ma, i)
        /\ SmaDefined(st.slow_ma, i)
        /\ SumOver(c, i - st.fast_ma + 1, i, 0) * st.slow_ma
             > SumOver(c, i - st.slow_ma + 1, i, 0) * st.fast_ma

\* data['position'], strategies.py:99-100
Position(st, candles, i) == IF FastAboveSlow(st, candles, i) THEN 1 ELSE -1

\* data['crossover'] at the last row, strategies.py:101
Crossover(st, candles) ==
    LET n == Len(candles)
    IN  Position(st, candles, n) - Position(st, candles, n - 1)

Momentum_too_short_one_window(st, n) == n < st.slow_ma

\* strategies.py:91
Momentum_too_short(st, n) == n < st.slow_ma * 2

\* strategies.py:90-126
Momentum_analyze(st, symbol, data) ==
    LET candles == data.candles
        n       == Len(candles)
        size    == calculate_position_size(st, candles[n].close)
    IN  IF Momentum_too_short(st, n) THEN Return(<<>>)
        ELSE IF Crossover(st, candles) > 0
        THEN IF size.exc # "" THEN Raise(size.exc)
             ELSE Return(<< TradeSignal(symbol, "buy", size.value, None, "market", 240) >>)
        ELSE IF Crossover(st, candles) < 0
        THEN IF size.exc # "" THEN Raise(size.exc)
             ELSE Return(<< TradeSignal(symbol, "sell", size.value, None, "market", 240) >>)
        ELSE Return(<<>>)

----------------------------------------------------------------------------
(* BreakoutStrategy, src/src/strategies.py:128-184 *)

\* strategies.py:130-133
BreakoutStrategy(cfg) ==
    [f \in {"resistance_window", "confirmation_candles"} |->
        CASE f = "resistance_window"    -> Get(cfg, "resistance_window", 14)
          [] f = "confirmation_candles" -> Get(cfg, "confirmation_candles", 2)]
    @@ StrategyBase("Breakout", cfg)

RECURSIVE MaxHigh(_, _, _)
MaxHigh(candles, lo, hi) ==
    IF lo = hi THEN candles[lo].high
    ELSE Max2(candles[lo].high, MaxHigh(candles, lo + 1, hi))

RECURSIVE MinLow(_, _, _)
MinLow(candles, lo, hi) ==
    IF lo = hi THEN candles[lo].low
    ELSE Min2(candles[lo].low, MinLow(candles, lo + 1, hi))

\* data['high'].rolling(w).max() at row i: NaN for the first w-1 rows
RollingDefined(w, i) == i >= w

\* strategies.py:140
Resistance(st, candles, i) == MaxHigh(candles, i - st.resistance_window + 1, i)

\* strategies.py:141
Support(st, candles, i) == MinLow(candles, i - st.resistance_window + 1, i)

\* latest['volume'] > data['volume'].mean(), strategies.py:149 and 168
VolumeAboveMean(candles) ==
    LET n == Len(candles)
        v == [i \in 1..n |-> candles[i].volume]
    IN  candles[n].volume * n > SumOver(v, 1, n, 0)

\* strategies.py:152-155: the closes of the last confirmation_candles rows
\* are each above the resistance of their own row
ConfirmedAbove(st, candles) ==
    LET n == Len(candles)
    IN  \A i \in 1..st.confirmation_candles :
            /\ RollingDefined(st.resistance_window, n - i + 1)
            /\ candles[n - i + 1].close > Resistance(st, candles, n - i + 1)

\* strategies.py:170-173
ConfirmedBelow(st, candles) ==
    LET n == Len(candles)
    IN  \A i \in 1..st.confirmation_candles :
            /\ RollingDefined(st.resistance_window, n - i + 1)
            /\ candles[n - i + 1].close < Support(st, candles, n - i + 1)

\* strategies.py:136
Breakout_too_short(st, n) == n < st.resistance_window * 2

\* strategies.py:135-184.  resistance[-2] (line 148) is the first thing the
\* long-enough path evaluates.
Breakout_analyze(st, symbol, data) ==
    LET candles == data.candles
        n       == Len(candles)
        close   == candles[n].close
        size    == calculate_position_size(st, close)
    IN  IF Breakout_too_short(st, n) THEN Return(<<>>)
        ELSE IF ~data.positional THEN Raise("KeyError")
        ELSE IF close > Resistance(st, candles, n - 1) /\ VolumeAboveMean(candles)
        THEN IF ConfirmedAbove(st, candles)
             THEN IF size.exc # "" THEN Raise(size.exc)
                  ELSE Return(<< TradeSignal(symbol, "buy", size.value,
                                             Some(Resistance(st, candles, n - 1) * 1005),
                                             "limit", 270) >>)
             ELSE Return(<<>>)
        ELSE IF close < Support(st, candles, n - 1) /\ VolumeAboveMean(candles)
        THEN IF ConfirmedBelow(st, candles)
             THEN IF size.exc # "" THEN Raise(size.exc)
                  ELSE Return(<< TradeSignal(symbol, "sell", size.value,
                                             Some(Support(st, candles, n - 1) * 995),
                                             "limit", 270) >>)
             ELSE Return(<<>>)
        ELSE Return(<<>>)

----------------------------------------------------------------------------
(* Dispatch and factory, src/src/strategies.py:186-199 *)

\* strategy.analyze(symbol, data): dynamic dispatch on the class
analyze(st, symbol, data) ==
    CASE st.kind = "MeanReversion" -> MeanReversion_analyze(st, symbol, data)
      [] st.kind = "Momentum"      -> Momentum_analyze(st, symbol, data)
      [] st.kind = "Breakout"      -> Breakout_analyze(st, symbol, data)

KnownKinds == {"mean_reversion", "momentum", "breakout"}

\* strategies.py:188-199
StrategyFactory_create(cfg) ==
    LET strategy_type == Get(cfg, "type", "mean_reversion")
    IN  IF strategy_type = "mean_reversion" THEN Return(<< MeanReversionStrategy(cfg) >>)
        ELSE IF strategy_type = "momentum" THEN Return(<< MomentumStrategy(cfg) >>)
        ELSE IF strategy_type = "breakout" THEN Return(<< BreakoutStrategy(cfg) >>)
        ELSE Raise("ValueError")

\* the variant's minimum lookback
MinLookback(st) ==
    CASE st.kind = "MeanReversion" -> 2 * Max2(st.bb_window, st.rsi_window)
      [] st.kind = "Momentum"      -> 2 * st.slow_ma
      [] st.kind = "Breakout"      -> 2 * st.resistance_window

----------------------------------------------------------------------------
(* Values of the variables a specification does not use *)

ClientIdle == calls = <<>>

StratIdle ==
    /\ s_config = [type |-> "mean_reversion"]
    /\ s_data = Frame(<<>>, FALSE, 50)
    /\ s_strategy = None
    /\ s_result = None

BotIdle ==
    /\ pc = "idle"
    /\ config = [watchlist |-> <<>>, strategies |-> <<>>]
    /\ strategies = <<>>
    /\ signals = <<>>
    /\ origin = <<>>
    /\ idx = 0
    /\ cycle = 0
    /\ trades = {}
    /\ log = <<>>
    /\ last = None
    /\ got_ohlcv = FALSE
    /\ executed_order = FALSE

----------------------------------------------------------------------------
(* RiskSpec *)

RiskInit ==
    /\ RiskManagerInit
    /\ ClientIdle
    /\ StratIdle
    /\ BotIdle

RiskNext ==
    \/ \E signal \in ClientSignals : CallApproveTrade(signal)
    \/ \E amount \in Deltas : CallUpdatePnl(amount)
    \/ CallResetDailyPnl

RiskSpec == RiskInit /\ [][RiskNext]_vars

----------------------------------------------------------------------------
(* StratSpec: create a strategy from a configuration, then analyze a frame *)

MeanReversionConfigs ==
    { [type |-> "mean_reversion", bb_window |-> 2, bb_std |-> 1, rsi_window |-> 2],
      [type |-> "mean_reversion", bb_window |-> 2, bb_std |-> 1, rsi_window |-> 2,
       min_confidence |-> 100],
      [bb_window |-> 2, bb_std |-> 2, rsi_window |-> 2, account_size |-> 500],
      [type |-> "mean_reversion"] }

MomentumConfigs ==
    { [type |-> "momentum", fast_ma |-> 2, slow_ma |-> 3],
      [type |-> "momentum", fast_ma |-> 2, slow_ma |-> 3, min_confidence |-> 285],
      [type |-> "momentum"] }

BreakoutConfigs ==
    { [type |-> "breakout", resistance_window |-> 2, confirmation_candles |-> 2],
      [type |-> "breakout", resistance_window |-> 2, confirmation_candles |-> 1,
       min_confidence |-> 285],
      [type |-> "breakout", resistance_window |-> 2, confirmation_candles |-> 1],
      [type |-> "breakout"] }

UnknownConfigs == { [type |-> "arbitrage"], [type |-> "Momentum", fast_ma |-> 2] }

\* the frames tried with a configuration: every series of closes, and the
\* columns only its strategy reads (the last volume, the index, the RSI)
FramesFor(cfg) ==
    LET kind == Get(cfg, "type", "mean_reversion")
        rows(cs, v) == [i \in 1..Len(cs) |-> Candle(cs[i], IF i = Len(cs) THEN v ELSE 1)]
    IN  { Frame(rows(cs, v), p, r) :
            cs \in SeqsUpTo(1..MaxClose, MaxLen),
            v \in IF kind = "breakout" THEN {1, 2} ELSE {1},
            p \in IF kind = "breakout" THEN BOOLEAN ELSE {FALSE},
            r \in IF kind = "mean_reversion" THEN RsiValues ELSE {50} }

\* for a mean-reversion configuration, three series of exactly its minimum
\* lookback (40 candles with the default windows): falling to the lower band
\* at the last candle, rising to the upper band, and flat
LookbackFramesFor(cfg) ==
    LET len == 2 * Max2(Get(cfg, "bb_window", 20), Get(cfg, "rsi_window", 14))
        falling == [i \in 1..len |-> Candle(IF i = len THEN 1 ELSE 2, 1)]
        rising  == [i \in 1..len |-> Candle(IF i = len THEN 2 ELSE 1, 1)]
        flat    == [i \in 1..len |-> Candle(1, 1)]
    IN  IF Get(cfg, "type", "mean_reversion") = "mean_reversion"
        THEN { Frame(cs, FALSE, r) : cs \in {falling, rising, flat}, r \in RsiValues }
        ELSE {}

StratInit ==
    /\ s_config \in MeanReversionConfigs \cup MomentumConfigs \cup BreakoutConfigs
                      \cup UnknownConfigs
    /\ s_data \in FramesFor(s_config) \cup LookbackFramesFor(s_config)
    /\ s_strategy = None
    /\ s_result = None
    /\ daily_pnl = 0
    /\ max_daily_loss = 1
    /\ ClientIdle
    /\ BotIdle

Create ==
    /\ s_strategy = None
    /\ s_strategy' = Some(StrategyFactory_create(s_config))
    /\ UNCHANGED <<s_config, s_data, s_result, riskVars, clientVars, botVars>>

Analyze ==
    /\ s_strategy # None
    /\ s_strategy[1].exc = ""
    /\ s_result = None
    /\ s_result' = Some(analyze(s_strategy[1].value[1], "BTC/USDT", s_data))
    /\ UNCHANGED <<s_config, s_data, s_strategy, riskVars, clientVars, botVars>>

StratNext == Create \/ Analyze

StratSpec == StratInit /\ [][StratNext]_vars

----------------------------------------------------------------------------
(* Collaborators of the loop.  The exchange is a venue outside the core:   *)
(* what its calls return is an input of the model.                         *)

\* exchange.get_ohlcv builds the frame with the default RangeIndex
\* (exchange.py:27-32), so positional is FALSE for every frame of the loop.
ShortFrame == Frame(<< Candle(2, 1), Candle(1, 1) >>, FALSE, 20)

BuyFrame == Frame(<< Candle(2, 1), Candle(2, 1), Candle(2, 1), Candle(1, 1) >>, FALSE, 20)

CrossFrame ==
    Frame(<< Candle(2, 1), Candle(2, 1), Candle(1, 1), Candle(1, 1), Candle(1, 1),
             Candle(2, 1) >>, FALSE, 50)

\* exchange.get_ohlcv(symbol, '1h', limit=100): a frame, or the venue fails
GetOhlcvOutcomes ==
    { Return(<<f>>) : f \in {ShortFrame, BuyFrame, CrossFrame} }
        \cup { Raise("NetworkError") }

\* exchange._simulate_order, exchange.py:47-57 (the signals of the loop are
\* limit orders, so signal.price is set)
simulate_order(signal) ==
    [id |-> "sim", symbol |-> signal.symbol, side |-> signal.side,
     amount |-> signal.amount, price |-> signal.price, status |-> "filled", pnl |-> 0]

\* an order dict a venue can answer with
VenueOrder(signal, id, status, pnl) ==
    [id |-> id, symbol |-> signal.symbol, side |-> signal.side, amount |-> signal.amount,
     entry_price |-> signal.price, status |-> status]
    @@ (IF pnl = None THEN <<>> ELSE [pnl |-> pnl[1]])

\* exchange.execute_order(signal), exchange.py:34-45
ExecuteOrderOutcomes(signal) ==
    { Return(<< simulate_order(signal) >>),
      Return(<< VenueOrder(signal, "o1", "filled", Some(-2)) >>),
      Return(<< VenueOrder(signal, "o2", "filled", None) >>),
      Return(<< VenueOrder(signal, "o3", "rejected", Some(-2)) >>),
      Return(<< VenueOrder(signal, "o4", "filled", Some(1)) >>),
      Raise("NetworkError") }

RequiredFields == {"id", "symbol", "side", "entry_price", "amount"}

\* PerformanceDashboard.record_trade, dashboard.py:45-79: the new content of
\* the trades table (INSERT OR REPLACE on the primary key id), or ValueError
record_trade(table, trade) ==
    IF ~(RequiredFields \subseteq DOMAIN trade) THEN Raise("ValueError")
    ELSE LET row == [id |-> trade.id, symbol |-> trade.symbol, side |-> trade.side,
                     entry_price |-> trade.entry_price, amount |-> trade.amount,
                     exit_price |-> Get(trade, "exit_price", None)]
         IN  Return(<< { t \in table : t.id # row.id } \cup {row} >>)

----------------------------------------------------------------------------
(* TradingBot, src/src/bot.py *)

RECURSIVE create_all(_, _, _)
\* bot.py:14-17: [StrategyFactory.create(s) for s in config.get('strategies', [])]
create_all(cfgs, i, acc) ==
    IF i > Len(cfgs) THEN Return(acc)
    ELSE LET r == StrategyFactory_create(cfgs[i])
         IN  IF r.exc # "" THEN Raise(r.exc)
             ELSE create_all(cfgs, i + 1, Append(acc, r.value[1]))

Tagged(sigs, symbolIndex, strategyIndex) ==
    [k \in 1..Len(sigs) |-> [signal |-> sigs[k], from |-> <<symbolIndex, strategyIndex>>]]

RECURSIVE strategies_pass_prepend(_, _, _, _, _, _)
strategies_pass_prepend(sts, j, symbol, symbolIndex, data, acc) ==
    IF j > Len(sts) THEN Return(acc)
    ELSE LET r == analyze(sts[j], symbol, data)
         IN  IF r.exc # "" THEN Raise(r.exc)
             ELSE strategies_pass_prepend(sts, j + 1, symbol, symbolIndex, data,
                                          Tagged(r.value, symbolIndex, j) \o acc)

RECURSIVE strategies_pass(_, _, _, _, _, _)
\* bot.py:38-39: the inner loop, signals.extend(strategy.analyze(symbol, data)).
\* Each signal is tagged with the symbol and strategy it comes from.
strategies_pass(sts, j, symbol, symbolIndex, data, acc) ==
    IF j > Len(sts) THEN Return(acc)
    ELSE LET r == analyze(sts[j], symbol, data)
         IN  IF r.exc # "" THEN Raise(r.exc)
             ELSE strategies_pass(sts, j + 1, symbol, symbolIndex, data,
                                  acc \o Tagged(r.value, symbolIndex, j))

RECURSIVE analyze_markets(_, _, _, _, _)
\* bot.py:33-40: the outer loop.  ohlcv[i] is what get_ohlcv answers for the
\* i-th symbol.  Yields the tagged signals and the number of get_ohlcv calls.
analyze_markets(watchlist, i, sts, ohlcv, acc) ==
    IF i > Len(watchlist) THEN [exc |-> "", value |-> acc, fetched |-> i - 1]
    ELSE IF ohlcv[i].exc # "" THEN [exc |-> ohlcv[i].exc, value |-> <<>>, fetched |-> i]
    ELSE LET r == strategies_pass(sts, 1, watchlist[i], i, ohlcv[i].value[1], acc)
         IN  IF r.exc # "" THEN [exc |-> r.exc, value |-> <<>>, fetched |-> i]
             ELSE analyze_markets(watchlist, i + 1, sts, ohlcv, r.value)

Event(call, i, ok) == [call |-> call, i |-> i, ok |-> ok]

Watchlist == Get(config, "watchlist", << "BTC/USDT" >>)

\* TradingBot.__init__, bot.py:9-17
Construct ==
    /\ pc = "new"
    /\ LET r == create_all(Get(config, "strategies", <<>>), 1, <<>>)
       IN  IF r.exc # ""
           THEN /\ pc' = "ctor_failed"
                /\ UNCHANGED strategies
           ELSE /\ pc' = "analyze"
                /\ strategies' = r.value
    /\ cycle' = 1
    /\ UNCHANGED <<config, signals, origin, idx, trades, log, last, got_ohlcv,
                   executed_order, riskVars, clientVars, stratVars>>

\* TradingBot._analyze_markets, bot.py:29 and 33-40
AnalyzeMarkets ==
    /\ pc = "analyze"
    /\ \E ohlcv \in [1..Len(Watchlist) -> GetOhlcvOutcomes] :
         LET r == analyze_markets(Watchlist, 1, strategies, ohlcv, <<>>)
         IN  /\ pc' = IF r.exc # "" THEN "crashed" ELSE "execute"
             /\ signals' = [k \in 1..Len(r.value) |-> r.value[k].signal]
             /\ origin' = [k \in 1..Len(r.value) |-> r.value[k].from]
             /\ log' = [k \in 1..r.fetched |-> Event("get_ohlcv", 0, TRUE)]
             /\ got_ohlcv' = (got_ohlcv \/ r.fetched > 0)
    /\ idx' = 1
    /\ last' = None
    /\ UNCHANGED <<config, strategies, cycle, trades, executed_order, riskVars,
                   clientVars, stratVars>>

\* One pass of the loop body of TradingBot._execute_trades, bot.py:44-48
ExecuteSignal ==
    /\ pc = "execute"
    /\ idx <= Len(signals)
    /\ LET signal == signals[idx]
           step(approved, order, recorded, updated, exc) ==
               Some([i |-> idx, approved |-> approved, order |-> order,
                     recorded |-> recorded, updated |-> updated, exc |-> exc,
                     pnl_before |-> daily_pnl, trades_before |-> trades])
       IN  IF ~approve_trade(daily_pnl, max_daily_loss, signal)
           THEN /\ log' = Append(log, Event("approve_trade", idx, FALSE))
                /\ last' = step(FALSE, None, FALSE, FALSE, "")
                /\ idx' = idx + 1
                /\ UNCHANGED <<pc, trades, daily_pnl, executed_order>>
           ELSE \E out \in ExecuteOrderOutcomes(signal) :
                  /\ executed_order' = TRUE
                  /\ IF out.exc # ""
                     THEN /\ log' = log \o << Event("approve_trade", idx, TRUE),
                                              Event("execute_order", idx, FALSE) >>
                          /\ last' = step(TRUE, None, FALSE, FALSE, out.exc)
                          /\ pc' = "crashed"
                          /\ UNCHANGED <<idx, trades, daily_pnl>>
                     ELSE LET order == out.value[1]
                              rec == record_trade(trades, order)
                          IN  IF rec.exc # ""
                              THEN /\ log' = log \o << Event("approve_trade", idx, TRUE),
                                                       Event("execute_order", idx, TRUE),
                                                       Event("record_trade", idx, FALSE) >>
                                   /\ last' = step(TRUE, Some(order), FALSE, FALSE, rec.exc)
                                   /\ pc' = "crashed"
                                   /\ UNCHANGED <<idx, trades, daily_pnl>>
                              ELSE /\ trades' = rec.value[1]
                                   /\ daily_pnl' = update_pnl(daily_pnl, Get(order, "pnl", 0))
                                   /\ log' = log \o << Event("approve_trade", idx, TRUE),
                                                       Event("execute_order", idx, TRUE),
                                                       Event("record_trade", idx, TRUE),
                                                       Event("update_pnl", idx, TRUE) >>
                                   /\ last' = step(TRUE, Some(order), TRUE, TRUE, "")
                                   /\ idx' = idx + 1
                                   /\ UNCHANGED pc
    /\ UNCHANGED <<config, strategies, signals, origin, cycle, got_ohlcv,
                   max_daily_loss, clientVars, stratVars>>

Sleep_resets ==
    /\ pc = "execute"
    /\ idx > Len(signals)
    /\ cycle < MaxCycles
    /\ pc' = "analyze"
    /\ cycle' = cycle + 1
    /\ daily_pnl' = reset_daily_pnl
    /\ UNCHANGED <<config, strategies, signals, origin, idx, trades, log, last,
                   got_ohlcv, executed_order, max_daily_loss, clientVars, stratVars>>

\* The end of one iteration of TradingBot.run, bot.py:28-31: the batch is
\* done, time.sleep, next iteration
Sleep ==
    /\ pc = "execute"
    /\ idx > Len(signals)
    /\ cycle < MaxCycles
    /\ pc' = "analyze"
    /\ cycle' = cycle + 1
    /\ UNCHANGED <<config, strategies, signals, origin, idx, trades, log, last,
                   got_ohlcv, executed_order, riskVars, clientVars, stratVars>>

MeanRevA ==
    [type |-> "mean_reversion", bb_window |-> 2, bb_std |-> 1, rsi_window |-> 2,
     min_confidence |-> 100]

MeanRevB ==
    [type |-> "mean_reversion", bb_window |-> 2, bb_std |-> 1, rsi_window |-> 2,
     min_confidence |-> 100, account_size |-> 500]

NoKind == [bb_window |-> 2, bb_std |-> 1, rsi_window |-> 2, min_confidence |-> 100]

MomentumCfg == [type |-> "momentum", fast_ma |-> 2, slow_ma |-> 3]

BreakoutCfg == [type |-> "breakout", resistance_window |-> 2, confirmation_candles |-> 2]

UnknownCfg == [type |-> "arbitrage"]

StrategyLists ==
    { <<>>, << MeanRevA >>, << MeanRevA, MeanRevB >>, << NoKind >>,
      << MeanRevA, MomentumCfg >>, << BreakoutCfg >>, << UnknownCfg >>,
      << MeanRevA, UnknownCfg >> }

BotConfigs ==
    { [strategies |-> ss] : ss \in StrategyLists }
      \cup { [watchlist |-> << "ETH/USDT", "BTC/USDT" >>, strategies |-> ss] :
               ss \in StrategyLists }
      \cup { [watchlist |-> << "ETH/USDT", "BTC/USDT" >>] }

\* The state in which TradingBot() starts: the configuration is loaded and the
\* RiskManager is built (bot.py:10-13) before the strategies are created
Init ==
    /\ RiskManagerInit
    /\ pc = "new"
    /\ config \in BotConfigs
    /\ strategies = <<>>
    /\ signals = <<>>
    /\ origin = <<>>
    /\ idx = 0
    /\ cycle = 0
    /\ trades = {}
    /\ log = <<>>
    /\ last = None
    /\ got_ohlcv = FALSE
    /\ executed_order = FALSE
    /\ ClientIdle
    /\ StratIdle

Next == Construct \/ AnalyzeMarkets \/ ExecuteSignal \/ Sleep

Spec == Init /\ [][Next]_vars

----------------------------------------------------------------------------
(* Properties of the risk gate, checked under RiskSpec *)

LastCall == calls[Len(calls)]

IsApprove(k) == calls[k].op = "approve_trade"

Approved(k) == calls[k].result[1]

\* C1: approve_trade returns false exactly when daily_pnl < -max_daily_loss
\* (it still approves at daily_pnl = -max_daily_loss), whatever the signal.
\* From daily_pnl = 0, after update_pnl(-max_daily_loss - 1) every
\* approve_trade returns false; right after reset_daily_pnl it returns true.
C1_ApproveExactlyAboveFloor ==
    /\ (calls # <<>> /\ IsApprove(Len(calls)))
          => (Approved(Len(calls)) <=> ~(daily_pnl < -max_daily_loss))
    /\ \A k \in 2..Len(calls) :
          ( /\ calls[1].op = "update_pnl"
            /\ calls[1].amount = Some(-max_daily_loss - 1)
            /\ \A j \in 2..k : IsApprove(j) )
          => \A j \in 2..k : ~Approved(j)
    /\ \A k \in 2..Len(calls) :
          (calls[k - 1].op = "reset_daily_pnl" /\ IsApprove(k)) => Approved(k)

\* exactly at the floor the gate still approves; one more unit of loss and
\* it denies
C1_Witness ==
    /\ Len(calls) = 4
    /\ calls[1].op = "update_pnl" /\ calls[1].amount = Some(-max_daily_loss)
    /\ IsApprove(2) /\ Approved(2)
    /\ calls[3].op = "update_pnl" /\ calls[3].amount = Some(-1)
    /\ IsApprove(4) /\ ~Approved(4)

NoResetBetween(i, j) == \A k \in (i + 1)..(j - 1) : calls[k].op # "reset_daily_pnl"

\* C2: once approve_trade has returned false, every later approve_trade
\* returns false as long as reset_daily_pnl has not been called, whatever
\* update_pnl calls (of either sign) lie in between.
C2_HaltedUntilReset ==
    \A i \in 1..Len(calls) : \A j \in (i + 1)..Len(calls) :
        (IsApprove(i) /\ ~Approved(i) /\ IsApprove(j) /\ NoResetBetween(i, j))
            => ~Approved(j)

\* C6: approve_trade changes neither daily_pnl nor max_daily_loss;
\* update_pnl(delta) moves daily_pnl by exactly delta, reset_daily_pnl sets
\* it to zero, and nothing else changes it.
C6_ApproveIsPureRead ==
    [][ LET c == calls'[Len(calls')]
        IN  /\ max_daily_loss' = max_daily_loss
            /\ c.op \in {"approve_trade", "update_pnl", "reset_daily_pnl"}
            /\ c.op = "approve_trade" => daily_pnl' = daily_pnl
            /\ c.op = "update_pnl" => daily_pnl' = daily_pnl + c.amount[1]
            /\ c.op = "reset_daily_pnl" => daily_pnl' = 0 ]_vars

\* an approve_trade on a halted gate, after two updates
C6_Witness ==
    /\ Len(calls) >= 3
    /\ calls[1].op = "update_pnl" /\ calls[1].amount # Some(0)
    /\ calls[2].op = "update_pnl" /\ calls[2].amount # Some(0)
    /\ IsApprove(Len(calls)) /\ ~Approved(Len(calls))
    /\ daily_pnl = calls[1].amount[1] + calls[2].amount[1]

----------------------------------------------------------------------------
(* Properties of the loop, checked under Spec *)

Success(order) == Get(order, "status", "") \in {"filled", "closed"}

\* C3: when execute_order returns an order whose status is not a success,
\* neither record_trade nor update_pnl is called for that signal: daily_pnl
\* and the trades table are as before the signal.
C3_NoSettlementOnFailure ==
    (last # None /\ last[1].order # None /\ ~Success(last[1].order[1]))
        => /\ ~last[1].recorded
           /\ ~last[1].updated
           /\ daily_pnl = last[1].pnl_before
           /\ trades = last[1].trades_before

\* C4: a failure while one signal is processed (execute_order or
\* record_trade raises) aborts neither the rest of the batch nor the loop.
C4_FailureDoesNotAbort ==
    (last # None /\ last[1].exc # "") => pc # "crashed"

BatchOver == pc = "crashed" \/ (pc = "execute" /\ idx > Len(signals))

Count(call, i) == Cardinality({ k \in 1..Len(log) : log[k].call = call /\ log[k].i = i })

ApprovedInLog(i) == \E k \in 1..Len(log) : log[k].call = "approve_trade" /\ log[k].i = i /\ log[k].ok

\* C5: when _execute_trades is over, approve_trade has been consulted exactly
\* once for every signal of the batch, execute_order has been called exactly
\* once for every approved signal, and none of execute_order, record_trade
\* and update_pnl has been called for a denied one.
C5_EachSignalGatedOnce ==
    BatchOver =>
        \A i \in 1..Len(signals) :
            /\ Count("approve_trade", i) = 1
            /\ ApprovedInLog(i) => Count("execute_order", i) = 1
            /\ ~ApprovedInLog(i) =>
                  /\ Count("execute_order", i) = 0
                  /\ Count("record_trade", i) = 0
                  /\ Count("update_pnl", i) = 0

Misconfigured ==
    \E i \in 1..Len(Get(config, "strategies", <<>>)) :
        LET c == Get(config, "strategies", <<>>)[i]
        IN  "type" \notin DOMAIN c \/ c.type \notin KnownKinds

\* C8: a strategy configuration whose kind is unknown or absent makes the
\* construction of the bot fail: the bot never reaches its loop and makes no
\* get_ohlcv or execute_order call.
C8_MisconfigurationFailsConstruction ==
    Misconfigured => (pc \in {"new", "ctor_failed"} /\ ~got_ohlcv /\ ~executed_order)

Rank(call) ==
    CASE call = "approve_trade" -> 1
      [] call = "execute_order" -> 2
      [] call = "record_trade"  -> 3
      [] call = "update_pnl"    -> 4
      [] OTHER                  -> 0

LexLeq(a, b) == a[1] < b[1] \/ (a[1] = b[1] /\ a[2] <= b[2])

\* C10: within a cycle the signals are handled one after the other in the
\* order of the watchlist first and of the strategy list second, and the
\* calls approve_trade, execute_order, record_trade, update_pnl for one signal
\* are all made, in this order, before approve_trade is called for the next.
C10_SequentialFixedOrder ==
    /\ \A i \in 1..Len(signals) : \A j \in (i + 1)..Len(signals) :
          LexLeq(origin[i], origin[j])
    /\ \A i \in 1..Len(signals) :
          /\ signals[i].symbol = Watchlist[origin[i][1]]
          /\ origin[i][2] \in 1..Len(strategies)
    /\ \A p \in 1..Len(log) : \A q \in (p + 1)..Len(log) :
          /\ log[p].i <= log[q].i
          /\ (log[p].i = log[q].i /\ log[p].i > 0) => Rank(log[p].call) < Rank(log[q].call)
    /\ \A q \in 1..Len(log) :
          (log[q].call = "approve_trade" /\ log[q].i > 1) =>
              /\ Count("approve_trade", log[q].i - 1) = 1
              /\ ApprovedInLog(log[q].i - 1) =>
                    /\ Count("execute_order", log[q].i - 1) = 1
                    /\ Count("record_trade", log[q].i - 1) = 1
                    /\ Count("update_pnl", log[q].i - 1) = 1

\* a batch of four signals, two symbols by two strategies, all handled, the
\* first two of them settled
C10_Witness ==
    /\ pc = "execute"
    /\ Len(signals) = 4
    /\ idx > Len(signals)
    /\ origin = << <<1, 1>>, <<1, 2>>, <<2, 1>>, <<2, 2>> >>
    /\ Count("update_pnl", 1) = 1
    /\ Count("update_pnl", 2) = 1

----------------------------------------------------------------------------
(* Properties of the strategies, checked under StratSpec *)

Analyzed == s_result # None

\* C7: every signal analyze returns has a confidence of at least the
\* configured min_confidence (0.7 when not configured), for each variant.
C7_ConfidenceFloor ==
    (Analyzed /\ s_result[1].exc = "") =>
        \A k \in 1..Len(s_result[1].value) :
            s_result[1].value[k].confidence >= Get(s_config, "min_confidence", 210)

\* a signal is returned whose confidence is below 1 and meets the floor
C7_Witness ==
    /\ Analyzed
    /\ s_result[1].exc = ""
    /\ Len(s_result[1].value) = 1
    /\ s_result[1].value[1].confidence < 300
    /\ s_result[1].value[1].confidence >= Get(s_config, "min_confidence", 210)

\* C9: on a series shorter than the variant's minimum lookback, the empty
\* series included, analyze returns the empty sequence and raises nothing.
C9_ShortSeriesNoSignal ==
    (Analyzed /\ Len(s_data.candles) < MinLookback(s_strategy[1].value[1]))
        => s_result[1] = Return(<<>>)

\* the series is one candle short of the lookback
C9_Witness ==
    /\ Analyzed
    /\ Len(s_data.candles) = MinLookback(s_strategy[1].value[1]) - 1
    /\ s_result[1] = Return(<<>>)

St == s_strategy[1].value[1]

LastRow == Len(s_data.candles)

\* sign(fast MA - slow MA) at row i: -1, 0 or 1, both averages being defined
MaSign(i) ==
    LET c == Closes(s_data.candles)
        f == SumOver(c, i - St.fast_ma + 1, i, 0) * St.slow_ma
        s == SumOver(c, i - St.slow_ma + 1, i, 0) * St.fast_ma
    IN  IF f > s THEN 1 ELSE IF f < s THEN -1 ELSE 0

IsOneMarketSignal(result, side) ==
    /\ result.exc = ""
    /\ Len(result.value) = 1
    /\ result.value[1].side = side
    /\ result.value[1].type = "market"
    /\ result.value[1].price = None
    /\ result.value[1].confidence = 240

\* C11: Momentum.analyze on at least 2 x slow_ma candles raises no error and
\* returns exactly one market buy of confidence 0.8 when the fast average
\* crosses from below to above the slow one at the last candle, exactly one
\* such sell when it crosses from above to below, and nothing when the sign
\* of fast - slow is the same at the previous and the last candle.
C11_MomentumCrossover ==
    (Analyzed /\ St.kind = "Momentum" /\ LastRow >= 2 * St.slow_ma
       /\ St.fast_ma <= LastRow - 1)
        => /\ (MaSign(LastRow - 1) < 0 /\ MaSign(LastRow) > 0)
                 => IsOneMarketSignal(s_result[1], "buy")
           /\ (MaSign(LastRow - 1) > 0 /\ MaSign(LastRow) < 0)
                 => IsOneMarketSignal(s_result[1], "sell")
           /\ MaSign(LastRow - 1) = MaSign(LastRow) => s_result[1] = Return(<<>>)

ValidCandles ==
    \A i \in 1..LastRow :
        s_data.candles[i].low <= s_data.candles[i].close
            /\ s_data.candles[i].close <= s_data.candles[i].high

\* the close of row i is above the resistance (below the support) of the
\* window that ends at row i - 1
ConfirmsUp(i) ==
    /\ RollingDefined(St.resistance_window, i - 1)
    /\ s_data.candles[i].close > Resistance(St, s_data.candles, i - 1)

ConfirmsDown(i) ==
    /\ RollingDefined(St.resistance_window, i - 1)
    /\ s_data.candles[i].close < Support(St, s_data.candles, i - 1)

LastRows == (LastRow - St.confirmation_candles + 1) .. LastRow

IsOneLimitSignal(result, side, price) ==
    /\ result.exc = ""
    /\ Len(result.value) = 1
    /\ result.value[1].side = side
    /\ result.value[1].price = Some(price)
    /\ result.value[1].confidence = 270

\* C12: Breakout.analyze on at least 2 x resistance_window valid candles:
\* when the last close is above the resistance of the window ending at the
\* previous candle, the last volume is above the mean volume and the last
\* confirmation_candles closes confirm, it returns exactly one buy of
\* confidence 0.9 at resistance_prev x 1.005; when one of these closes does
\* not confirm, it returns no signal.  Likewise for a sell below the support,
\* at support_prev x 0.995.
C12_BreakoutConfirmed ==
    (Analyzed /\ St.kind = "Breakout" /\ LastRow >= 2 * St.resistance_window
       /\ ValidCandles /\ St.min_confidence <= 270)
        => /\ (ConfirmsUp(LastRow) /\ VolumeAboveMean(s_data.candles))
                => IF \A i \in LastRows : ConfirmsUp(i)
                   THEN IsOneLimitSignal(s_result[1], "buy",
                            Resistance(St, s_data.candles, LastRow - 1) * 1005)
                   ELSE s_result[1] = Return(<<>>)
           /\ (ConfirmsDown(LastRow) /\ VolumeAboveMean(s_data.candles))
                => IF \A i \in LastRows : ConfirmsDown(i)
                   THEN IsOneLimitSignal(s_result[1], "sell",
                            Support(St, s_data.candles, LastRow - 1) * 995)
                   ELSE s_result[1] = Return(<<>>)

LastClose == s_data.candles[LastRow].close

\* close <= lower_band and oscillator < 30
BuyCase == AtOrBelowLowerBand(St, s_data.candles) /\ s_data.rsi < 30

\* otherwise, close >= upper_band and oscillator > 70
SellCase == ~BuyCase /\ AtOrAboveUpperBand(St, s_data.candles) /\ s_data.rsi > 70

BuyConfidence == Min2(300, 10 * (30 - s_data.rsi))

SellConfidence == Min2(300, 10 * (s_data.rsi - 70))

IsOneSignal(result, side, price, confidence) ==
    /\ result.exc = ""
    /\ Len(result.value) = 1
    /\ result.value[1].side = side
    /\ result.value[1].price = Some(price)
    /\ result.value[1].confidence = confidence

MeanReversionRan ==
    Analyzed /\ St.kind = "MeanReversion" /\ LastRow >= MinLookback(St)

\* C13, as stated: with the default min_confidence, MeanReversion.analyze
\* returns exactly one buy of confidence min(1, (30 - osc)/30) at close x 1.002
\* whenever close <= lower_band and osc < 30, exactly one sell of confidence
\* min(1, (osc - 70)/30) at close x 0.998 whenever instead close >= upper_band
\* and osc > 70, and never both.
C13_SignalWheneverBandAndOscillator ==
    (MeanReversionRan /\ "min_confidence" \notin DOMAIN s_config)
        => /\ BuyCase => IsOneSignal(s_result[1], "buy", LastClose * 1002, BuyConfidence)
           /\ SellCase => IsOneSignal(s_result[1], "sell", LastClose * 998, SellConfidence)
           /\ Len(s_result[1].value) <= 1

\* C13, amended: the signal is returned only when its confidence reaches
\* min_confidence (0.7 by default); below it analyze returns the empty
\* sequence.
C13_SignalWhenConfident ==
    MeanReversionRan
        => /\ BuyCase =>
                IF BuyConfidence >= Get(s_config, "min_confidence", 210)
                THEN IsOneSignal(s_result[1], "buy", LastClose * 1002, BuyConfidence)
                ELSE s_result[1] = Return(<<>>)
           /\ SellCase =>
                IF SellConfidence >= Get(s_config, "min_confidence", 210)
                THEN IsOneSignal(s_result[1], "sell", LastClose * 998, SellConfidence)
                ELSE s_result[1] = Return(<<>>)
           /\ Len(s_result[1].value) <= 1

\* the all-default configuration on 40 candles: the close is at or below the
\* lower band, the oscillator is 9, and the buy of confidence exactly 0.7 is
\* returned
C13_Witness ==
    /\ MeanReversionRan
    /\ s_config = [type |-> "mean_reversion"]
    /\ BuyCase
    /\ s_data.rsi = 9
    /\ IsOneSignal(s_result[1], "buy", LastClose * 1002, 210)

----------------------------------------------------------------------------
(* The bot once the daily loss limit is crossed *)

Halted == daily_pnl < -max_daily_loss

SettlementCalls == {"execute_order", "record_trade", "update_pnl"}

\* C14: once daily_pnl < -max_daily_loss, no step of the bot calls
\* execute_order, record_trade or update_pnl again, in the same batch or in a
\* later cycle: daily_pnl and the recorded trades stay as they are and the
\* bot stays halted.
C14_HaltedForTheRestOfTheRun ==
    [][ Halted =>
          /\ daily_pnl' = daily_pnl
          /\ trades' = trades
          /\ Halted'
          /\ \A k \in 1..Len(log') :
                log'[k].call \in SettlementCalls => (k <= Len(log) /\ log'[k] = log[k]) ]_vars

\* in a later cycle, after a settlement crossed the limit, a signal was
\* refused
C14_Witness ==
    /\ Halted
    /\ cycle >= 2
    /\ pc = "execute"
    /\ last # None
    /\ ~last[1].approved
    /\ trades # {}

====
